---------------------------- MODULE Spec2Model ----------------------------
(***************************************************************************)
(* A model of src/main.py: the time-weighted shortest-path search          *)
(* (fastest_path), the ship kinematics (Ship.set_path, Ship.update), the   *)
(* event log (Cul.log_data) and the driver (main, animate).                *)
(*                                                                         *)
(* Numbers.  The program computes with floats.  The model computes with    *)
(* exact arithmetic on inputs for which every Euclidean norm the program   *)
(* takes is an integer (axis-parallel legs and 3-4-5 triangles), so that   *)
(* no square root is approximated:                                         *)
(*   - router coordinates and distances are integers; an accumulated time  *)
(*     dist/speed is the integer dist * TimeScale / speed, where every     *)
(*     speed of the model divides TimeScale;                               *)
(*   - ship positions are fixed-point integers in units of 1/PosScale.     *)
(* The one float value that is not a number, NaN, is modelled explicitly   *)
(* (field nan of a position).                                              *)
(***************************************************************************)
EXTENDS Integers, Sequences, FiniteSets, TLC

VARIABLES
    planets,      \* main: planets, waypoint -> coordinate
    routes,       \* main: routes, the list of edges (a, b)
    graph,        \* main: graph, waypoint -> list of neighbours
    start,        \* fastest_path: start
    end,          \* fastest_path: end
    ship_speed,   \* fastest_path: ship_speed
    queue,        \* fastest_path: queue, entries in insertion order
    visited,      \* fastest_path: visited, waypoint -> recorded time
    result,       \* fastest_path: what the call returned
    pops,         \* history: the entries popped so far, in pop order
    ships_data,   \* main: ships_data, the configured ships
    next_ship,    \* main: index in ships_data of the next ship to set up
    ships,        \* main: ships, the active ships (Ship objects), in order
    log,          \* Cul: the rows of table cul_data, in insertion order
    unroutable,   \* main: the ships reported "No path found", in order
    calls,        \* history: per active ship, the calls of update so far
    rejects,      \* history: per rejected call of set_path, the ship's
                  \* target_index when it was called
    frame,        \* main: the calls of animate so far
    stopped,      \* main: ani.event_source.stop() has been called
    pc            \* which part of the program is running

routerVars == <<start, end, ship_speed, queue, visited, result, pops>>

shipVars == <<ships, log, calls, rejects>>

driverVars == <<ships_data, next_ship, unroutable, frame, stopped>>

vars == <<planets, routes, graph, routerVars, shipVars, driverVars, pc>>

-----------------------------------------------------------------------------
(* Bounds of the model *)

\* Most routes (edges) in a configuration's route list.
MaxRoutes == 4

\* Most ships in a configuration's ship list.
MaxShips == 2

\* Most points in a path handed to set_path.
MaxPathLen == 3

\* Most calls of update on the ship of SpecShip.
MaxTicks == 12

\* Most rejected calls of set_path on the ship of SpecShip.
MaxRejects == 1

\* Ship positions are held in units of 1/PosScale (5 keeps every step along
\* a 3-4-5 leg at an integer speed exact).
PosScale == 4 + 1

\* The speeds ships are given (positive; each divides TimeScale).
Speeds == {2, 5}

\* Common denominator of accumulated times: a time t is held as t * TimeScale.
TimeScale == 2 * 5

-----------------------------------------------------------------------------
(* Arithmetic helpers *)

Abs(x) == IF x < 0 THEN -x ELSE x

Max(a, b) == IF b > a THEN b ELSE a

\* min(self.speed, dist_to_target) with max written for min.
MinAsMax(a, b) == IF b > a THEN b ELSE a

\* Python's min(a, b): b when b < a, else a.
Min(a, b) == IF b < a THEN b ELSE a

\* np.linalg.norm of the vector (dx, dy): the integer square root, exact on
\* the inputs of the model (see ArithmeticExact).
Norm(dx, dy) ==
    LET d2 == dx * dx + dy * dy
    IN  CHOOSE r \in 0..(Abs(dx) + Abs(dy)) : r * r <= d2 /\ (r + 1) * (r + 1) > d2

IsSquare(dx, dy) == Norm(dx, dy) * Norm(dx, dy) = dx * dx + dy * dy

-----------------------------------------------------------------------------
(* Topologies *)

\* Waypoint names are 1..4; their order is the order of the name strings.
Nodes == 1..4

\* The coordinate maps the model draws from.
\*   1: the scenario A = (0,0), B = (10,0), C = (10,10) and a fourth waypoint
\*      with B's coordinates (a zero-length edge 2-4);
\*   2: a 6-8-10 triangle 1, 2, 3 and the midpoint 4 of its hypotenuse (all
\*      six distances are integers; 1-3 ties with 1-4-3 and beats 1-2-3).
Layouts ==
    { <<  <<0, 0>>, <<10, 0>>, <<10, 10>>, <<10, 0>>  >>,
      <<  <<0, 0>>, <<6, 0>>,  <<6, 8>>,   <<3, 4>>   >> }

\* The edges a route list may hold under coordinate map p: the pairs a < b
\* whose distance is an integer, and one more: under the first map the
\* self-loop 2-2, under the second the route 2-1 (with 1-2, two routes
\* between the same waypoints).
EdgePool(p) ==
    { e \in Nodes \X Nodes :
        /\ e[1] < e[2]
        /\ IsSquare(p[e[2]][1] - p[e[1]][1], p[e[2]][2] - p[e[1]][2]) }
    \cup (IF p[2] = p[4] THEN { <<2, 2>> } ELSE { <<2, 1>> })

\* The route lists: up to MaxRoutes edges of the pool, in any order, no edge
\* of the pool twice.
RouteLists(p) ==
    { rs \in UNION { [1..k -> EdgePool(p)] : k \in 0..MaxRoutes } :
        \A i \in 1..Len(rs) : \A j \in 1..Len(rs) : rs[i] = rs[j] => i = j }

\* main, lines 176-179: graph.setdefault(a, []).append(b), then
\* graph.setdefault(b, []).append(a), for each route in order.
Append1(g, a, b) ==
    [n \in DOMAIN g \cup {a} |->
        IF n = a THEN (IF a \in DOMAIN g THEN Append(g[a], b) ELSE <<b>>)
        ELSE g[n]]

RECURSIVE BuildGraphFrom(_, _, _)
BuildGraphFrom(rs, i, g) ==
    IF i > Len(rs) THEN g
    ELSE BuildGraphFrom(rs, i + 1,
             Append1(Append1(g, rs[i][1], rs[i][2]), rs[i][2], rs[i][1]))

EmptyMap == [n \in {} |-> 0]

BuildGraph(rs) == BuildGraphFrom(rs, 1, EmptyMap)

\* graph.get(node, [])
GraphGet(g, node) == IF node \in DOMAIN g THEN g[node] ELSE <<>>

-----------------------------------------------------------------------------
(* fastest_path *)

\* What fastest_path returns: a list of waypoints, or None.
NonePath == [found |-> FALSE, path |-> <<>>]
SomePath(p) == [found |-> TRUE, path |-> p]
Running == [found |-> FALSE, path |-> <<0>>]

\* Python's order on lists: lexicographic, a proper prefix first.
RECURSIVE ListLess(_, _)
ListLess(a, b) ==
    IF b = <<>> THEN FALSE
    ELSE IF a = <<>> THEN TRUE
    ELSE IF Head(a) # Head(b) THEN Head(a) < Head(b)
    ELSE ListLess(Tail(a), Tail(b))

\* Heap entries ordered by their time alone.
TupleLessByTime(e, f) == e.time < f.time

\* Python's order on the tuples (total_time, node, path) the heap holds.
TupleLess(e, f) ==
    \/ e.time < f.time
    \/ e.time = f.time /\ e.node < f.node
    \/ e.time = f.time /\ e.node = f.node /\ ListLess(e.path, f.path)

\* A queue popped from its front (queue.pop(0)) instead of heappop.
PopIndexFifo(q) == 1

\* A pop that takes, of the entries of least time, the one inserted first.
PopIndexByInsertion(q) ==
    CHOOSE i \in 1..Len(q) :
        /\ \A j \in 1..Len(q) : q[j].time >= q[i].time
        /\ \A j \in 1..(i - 1) : q[j].time > q[i].time

\* heapq.heappop returns the least tuple of the heap.  Tuples that compare
\* equal are equal values, so the heap's layout cannot be observed: queue is
\* kept in insertion order and the first least entry is taken out.
PopIndex(q) ==
    CHOOSE i \in 1..Len(q) :
        /\ \A j \in 1..Len(q) : ~TupleLess(q[j], q[i])
        /\ \A j \in 1..(i - 1) : q[j] # q[i]

Remove(q, i) == SubSeq(q, 1, i - 1) \o SubSeq(q, i + 1, Len(q))

\* line 103: dist = norm(positions[neighbor] - positions[node])
Dist(positions, a, b) ==
    Norm(positions[b][1] - positions[a][1], positions[b][2] - positions[a][2])

\* line 104 with floor division: travel_time = dist // ship_speed.
TravelTimeFloor(dist, speed) == (dist \div speed) * TimeScale

\* line 104: travel_time = dist / ship_speed, as a multiple of 1/TimeScale.
TravelTime(dist, speed) == (dist * TimeScale) \div speed

\* The push of line 105 with the path not extended by the neighbour.
RECURSIVE PushNeighborsStalePath(_, _, _, _, _, _)
PushNeighborsStalePath(q, nbrs, i, e, positions, speed) ==
    IF i > Len(nbrs) THEN q
    ELSE PushNeighborsStalePath(
             Append(q, [time |-> e.time + TravelTime(Dist(positions, e.node, nbrs[i]), speed),
                        node |-> nbrs[i],
                        path |-> e.path]),
             nbrs, i + 1, e, positions, speed)

\* The push of line 105 with path + [node] for path + [neighbor].
RECURSIVE PushNeighborsNodePath(_, _, _, _, _, _)
PushNeighborsNodePath(q, nbrs, i, e, positions, speed) ==
    IF i > Len(nbrs) THEN q
    ELSE PushNeighborsNodePath(
             Append(q, [time |-> e.time + TravelTime(Dist(positions, e.node, nbrs[i]), speed),
                        node |-> nbrs[i],
                        path |-> Append(e.path, e.node)]),
             nbrs, i + 1, e, positions, speed)

\* lines 102-105: push (total_time + travel_time, neighbor, path + [neighbor])
\* for each neighbour of the popped entry e, in adjacency order.
RECURSIVE PushNeighbors(_, _, _, _, _, _)
PushNeighbors(q, nbrs, i, e, positions, speed) ==
    IF i > Len(nbrs) THEN q
    ELSE PushNeighbors(
             Append(q, [time |-> e.time + TravelTime(Dist(positions, e.node, nbrs[i]), speed),
                        node |-> nbrs[i],
                        path |-> Append(e.path, nbrs[i])]),
             nbrs, i + 1, e, positions, speed)

\* The check of line 98 with < for <=.
FinalizedStrict(vis, e) == e.node \in DOMAIN vis /\ vis[e.node] < e.time

\* line 98: node in visited and visited[node] <= total_time
Finalized(vis, e) == e.node \in DOMAIN vis /\ vis[e.node] <= e.time

\* line 100: visited[node] = total_time
Record(vis, e) ==
    [n \in DOMAIN vis \cup {e.node} |-> IF n = e.node THEN e.time ELSE vis[n]]

\* The variables of the ships and of the driver while only a query runs.
NoShips == ships = <<>> /\ log = <<>> /\ calls = <<>> /\ rejects = <<>>

NoDriver ==
    /\ ships_data = <<>> /\ next_ship = 1 /\ unroutable = <<>>
    /\ frame = 0 /\ stopped = FALSE

\* line 92: queue = [(0, start, [start])]
InitQueue(s) == << [time |-> 0, node |-> s, path |-> <<s>>] >>

\* One iteration of the loop of lines 94-105 in which the heap hands out
\* queue[i] and it is the goal: return its path (lines 96-97).
Return(i) ==
    /\ pc = "search" /\ queue # <<>>
    /\ LET e == queue[i]
       IN  /\ e.node = end
           /\ result' = SomePath(e.path)
           /\ queue' = Remove(queue, i)
           /\ pops' = Append(pops, e)
           /\ pc' = "returned"
    /\ UNCHANGED <<planets, routes, graph, start, end, ship_speed, visited,
                   shipVars, driverVars>>

\* One iteration in which the popped entry is discarded (lines 98-99).
Skip(i) ==
    /\ pc = "search" /\ queue # <<>>
    /\ LET e == queue[i]
       IN  /\ e.node # end
           /\ Finalized(visited, e)
           /\ queue' = Remove(queue, i)
           /\ pops' = Append(pops, e)
    /\ UNCHANGED <<planets, routes, graph, start, end, ship_speed, visited,
                   result, pc, shipVars, driverVars>>

\* One iteration in which the popped entry is finalized and its neighbours
\* are pushed (lines 100-105).
Expand(i) ==
    /\ pc = "search" /\ queue # <<>>
    /\ LET e == queue[i]
       IN  /\ e.node # end
           /\ ~Finalized(visited, e)
           /\ visited' = Record(visited, e)
           /\ queue' = PushNeighbors(Remove(queue, i), GraphGet(graph, e.node),
                                     1, e, planets, ship_speed)
           /\ pops' = Append(pops, e)
    /\ UNCHANGED <<planets, routes, graph, start, end, ship_speed, result, pc,
                   shipVars, driverVars>>

RouterReturn == Return(PopIndex(queue))

RouterSkip == Skip(PopIndex(queue))

RouterExpand == Expand(PopIndex(queue))

\* The queue is empty: return None (line 107).
RouterNone ==
    /\ pc = "search" /\ queue = <<>>
    /\ result' = NonePath
    /\ pc' = "returned"
    /\ UNCHANGED <<planets, routes, graph, start, end, ship_speed, queue,
                   visited, pops, shipVars, driverVars>>

RouterInit ==
    /\ planets \in Layouts
    /\ routes \in RouteLists(planets)
    /\ graph = BuildGraph(routes)
    /\ start \in Nodes
    /\ end \in Nodes
    /\ ship_speed \in Speeds
    /\ queue = InitQueue(start)
    /\ visited = EmptyMap
    /\ result = Running
    /\ pops = <<>>
    /\ NoShips
    /\ NoDriver
    /\ pc = "search"

RouterNext == RouterReturn \/ RouterSkip \/ RouterExpand \/ RouterNone

\* The specification of one fastest_path query, step by step.
SpecRouter == RouterInit /\ [][RouterNext]_vars

\* fastest_path as a function of its arguments: the loop of lines 94-107 run
\* to its return.
RECURSIVE Search(_, _, _, _, _, _)
Search(q, vis, g, goal, positions, speed) ==
    IF q = <<>> THEN NonePath
    ELSE LET i == PopIndex(q)
             e == q[i]
         IN  IF e.node = goal THEN SomePath(e.path)
             ELSE IF Finalized(vis, e)
                  THEN Search(Remove(q, i), vis, g, goal, positions, speed)
                  ELSE Search(PushNeighbors(Remove(q, i), GraphGet(g, e.node),
                                            1, e, positions, speed),
                              Record(vis, e), g, goal, positions, speed)

fastest_path(g, s, goal, positions, speed) ==
    Search(InitQueue(s), EmptyMap, g, goal, positions, speed)

\* The step-by-step query and the function agree.
RouterAgrees ==
    pc = "returned" => result = fastest_path(graph, start, end, planets, ship_speed)

-----------------------------------------------------------------------------
(* The same query on a heap that may hand out any least entry *)

\* The entries no entry of the queue is less than: what heappop could return
\* under some layout of the heap.
LeastEntries(q) ==
    { i \in 1..Len(q) : \A j \in 1..Len(q) : ~TupleLess(q[j], q[i]) }

FreeReturn == \E i \in LeastEntries(queue) : Return(i)

FreeSkip == \E i \in LeastEntries(queue) : Skip(i)

FreeExpand == \E i \in LeastEntries(queue) : Expand(i)

FreeNext == FreeReturn \/ FreeSkip \/ FreeExpand \/ RouterNone

SpecFreeHeap == RouterInit /\ [][FreeNext]_vars


-----------------------------------------------------------------------------
(* Ship *)

\* self.target = None
NoTarget == <<>>

\* A float position: nan is TRUE when both coordinates are NaN (x, y are then 0).
NaNPos == [x |-> 0, y |-> 0, nan |-> TRUE]

\* np.array(c, dtype=float) of a coordinate pair c, as a position.
ToPos(c) == [x |-> PosScale * c[1], y |-> PosScale * c[2], nan |-> FALSE]

\* np.array(c, dtype=float) of a coordinate pair c, as a target.
ToTarget(c) == <<PosScale * c[1], PosScale * c[2]>>

\* Ship.__init__, lines 53-60.
Ship(name, start_pos, speed) ==
    [name |-> name, pos |-> ToPos(start_pos), speed |-> speed, path |-> <<>>,
     target_index |-> 0, target |-> NoTarget]

\* Cul.log_data, lines 35-43: one row of cul_data (the timestamp left out).
Event(name, metric, value, pos) ==
    [ship |-> name, metric |-> metric, value |-> value, pos |-> pos]

\* set_path logging route_enter before it looks at the path.
set_pathLogsFirst(s, path) ==
    IF path = <<>> \/ Len(path) < 2
    THEN [ship |-> s, events |-> << Event(s.name, "route_enter", 0, s.pos) >>]
    ELSE [ship |-> [s EXCEPT !.path = path, !.target_index = 1,
                             !.target = ToTarget(path[2])],
          events |-> << Event(s.name, "route_enter", 0, s.pos) >>]

\* Ship.set_path, lines 62-69.  Python indexes path from 0, the model from 1:
\* target_index is kept as in the program and path[target_index + 1] read.
set_path(s, path) ==
    IF path = <<>> \/ Len(path) < 2
    THEN [ship |-> s, events |-> <<>>]
    ELSE [ship |-> [s EXCEPT !.path = path, !.target_index = 1,
                             !.target = ToTarget(path[2])],
          events |-> << Event(s.name, "route_enter", 0, s.pos) >>]

\* The arrival check with < for <=.
ArriveStrict(s, pos, dist) ==
    IF dist < s.speed * PosScale
    THEN LET idx == s.target_index + 1
         IN  IF idx < Len(s.path)
             THEN [ship |-> [s EXCEPT !.pos = pos, !.target_index = idx,
                                      !.target = ToTarget(s.path[idx + 1])],
                   events |-> << Event(s.name, "route_exit", dist, pos),
                                 Event(s.name, "route_enter", 0, pos) >>]
             ELSE [ship |-> [s EXCEPT !.pos = pos, !.target_index = idx,
                                      !.target = NoTarget],
                   events |-> << Event(s.name, "route_exit", dist, pos) >>]
    ELSE [ship |-> [s EXCEPT !.pos = pos], events |-> <<>>]

\* The arrival check logging route_enter for the next waypoint before the
\* route_exit of the one reached.
ArriveEnterFirst(s, pos, dist) ==
    IF dist <= s.speed * PosScale
    THEN LET idx == s.target_index + 1
         IN  IF idx < Len(s.path)
             THEN [ship |-> [s EXCEPT !.pos = pos, !.target_index = idx,
                                      !.target = ToTarget(s.path[idx + 1])],
                   events |-> << Event(s.name, "route_enter", 0, pos),
                                 Event(s.name, "route_exit", dist, pos) >>]
             ELSE [ship |-> [s EXCEPT !.pos = pos, !.target_index = idx,
                                      !.target = NoTarget],
                   events |-> << Event(s.name, "route_exit", dist, pos) >>]
    ELSE [ship |-> [s EXCEPT !.pos = pos], events |-> <<>>]

\* The arrival check logging route_enter after every waypoint reached, the
\* last included.
ArriveEnterAlways(s, pos, dist) ==
    IF dist <= s.speed * PosScale
    THEN LET idx == s.target_index + 1
         IN  [ship |-> [s EXCEPT !.pos = pos, !.target_index = idx,
                                 !.target = IF idx < Len(s.path)
                                            THEN ToTarget(s.path[idx + 1])
                                            ELSE NoTarget],
              events |-> << Event(s.name, "route_exit", dist, pos),
                            Event(s.name, "route_enter", 0, pos) >>]
    ELSE [ship |-> [s EXCEPT !.pos = pos], events |-> <<>>]

\* Ship.update, lines 80-88: the arrival check, after the move to pos with
\* dist_to_target = dist.
Arrive(s, pos, dist) ==
    IF dist <= s.speed * PosScale
    THEN LET idx == s.target_index + 1
         IN  IF idx < Len(s.path)
             THEN [ship |-> [s EXCEPT !.pos = pos, !.target_index = idx,
                                      !.target = ToTarget(s.path[idx + 1])],
                   events |-> << Event(s.name, "route_exit", dist, pos),
                                 Event(s.name, "route_enter", 0, pos) >>]
             ELSE [ship |-> [s EXCEPT !.pos = pos, !.target_index = idx,
                                      !.target = NoTarget],
                   events |-> << Event(s.name, "route_exit", dist, pos) >>]
    ELSE [ship |-> [s EXCEPT !.pos = pos], events |-> <<>>]

\* line 77 without the division by dist_to_target:
\* self.pos += direction * step.
MoveUnnormalised(pos, dx, dy, dist, step) ==
    [x |-> pos.x + (dx * step) \div PosScale,
     y |-> pos.y + (dy * step) \div PosScale,
     nan |-> FALSE]

\* line 77: self.pos += (direction / dist_to_target) * step, for a position
\* that is a number.  direction / 0.0 is numpy's NaN (a warning, no exception).
Move(pos, dx, dy, dist, step) ==
    IF dist = 0 THEN NaNPos
    ELSE [x |-> pos.x + (dx * step) \div dist,
          y |-> pos.y + (dy * step) \div dist,
          nan |-> FALSE]

\* update with the idle check of lines 72-73 placed after the log of line 78:
\* an idle ship logs a step of 0.
updateLogsIdle(s) ==
    IF s.target = NoTarget
    THEN [ship |-> s,
          events |-> << Event(s.name, "distance_traveled", 0, s.pos) >>]
    ELSE IF s.pos.nan
    THEN [ship |-> s,
          events |-> << Event(s.name, "distance_traveled", s.speed * PosScale, NaNPos) >>]
    ELSE LET dx == s.target[1] - s.pos.x
             dy == s.target[2] - s.pos.y
             dist == Norm(dx, dy)
             step == Min(s.speed * PosScale, dist)
             pos == Move(s.pos, dx, dy, dist, step)
             arr == Arrive(s, pos, dist)
         IN  [ship |-> arr.ship,
              events |-> << Event(s.name, "distance_traveled", step, pos) >>
                         \o arr.events]

\* Ship.update, lines 71-88.
\*   - pos a number: direction, dist_to_target and step as written;
\*   - pos NaN: direction and dist_to_target are NaN, min(self.speed, NaN) is
\*     self.speed (NaN < speed is False), pos stays NaN, and NaN <= self.speed
\*     is False: no arrival.
update(s) ==
    IF s.target = NoTarget THEN [ship |-> s, events |-> <<>>]
    ELSE IF s.pos.nan
    THEN [ship |-> s,
          events |-> << Event(s.name, "distance_traveled", s.speed * PosScale, NaNPos) >>]
    ELSE LET dx == s.target[1] - s.pos.x
             dy == s.target[2] - s.pos.y
             dist == Norm(dx, dy)
             step == Min(s.speed * PosScale, dist)
             pos == Move(s.pos, dx, dy, dist, step)
             arr == Arrive(s, pos, dist)
         IN  [ship |-> arr.ship,
              events |-> << Event(s.name, "distance_traveled", step, pos) >>
                         \o arr.events]

\* The arithmetic of the next update of ship s is exact in the model.
StepExact(s) ==
    (s.target # NoTarget /\ ~s.pos.nan) =>
        LET dx == s.target[1] - s.pos.x
            dy == s.target[2] - s.pos.y
            dist == Norm(dx, dy)
            step == Min(s.speed * PosScale, dist)
        IN  /\ IsSquare(dx, dy)
            /\ dist > 0 => (dx * step) % dist = 0 /\ (dy * step) % dist = 0

ArithmeticExact == \A k \in 1..Len(ships) : StepExact(ships[k])

-----------------------------------------------------------------------------
(* One ship, given a path and ticked *)

\* The coordinates a path is drawn from.
ShipCoords == { <<0, 0>>, <<4, 0>>, <<10, 0>>, <<10, 10>>, <<3, 4>>, <<6, 8>> }

ExactLeg(a, b) == IsSquare(b[1] - a[1], b[2] - a[2])

\* The paths handed to set_path: up to MaxPathLen points, every leg of
\* integer length (zero included).
PathInputs ==
    { p \in UNION { [1..k -> ShipCoords] : k \in 0..MaxPathLen } :
        \A i \in 1..(Len(p) - 1) : ExactLeg(p[i], p[i + 1]) }

\* The paths of fewer than 2 points.
ShortInputs == { <<>> } \cup { <<c>> : c \in ShipCoords }

\* set_path(p) is called with 2 points or more: the one call main makes, on
\* the new ship, which stands at p's first point.
ShipSetPath ==
    /\ pc = "ship"
    /\ ships[1].path = <<>> /\ calls[1] = 0
    /\ \E p \in PathInputs \ ShortInputs :
          /\ ToPos(p[1]) = ships[1].pos
          /\ LET r == set_path(ships[1], p)
             IN  /\ ships' = << r.ship >>
                 /\ log' = log \o r.events
    /\ UNCHANGED <<planets, routes, graph, routerVars, driverVars, calls,
                   rejects, pc>>

\* set_path(p) is called with fewer than 2 points, at any time.
ShipSetShortPath ==
    /\ pc = "ship"
    /\ Len(rejects) < MaxRejects
    /\ \E p \in ShortInputs :
          LET r == set_path(ships[1], p)
          IN  /\ ships' = << r.ship >>
              /\ log' = log \o r.events
    /\ rejects' = Append(rejects, ships[1].target_index)
    /\ UNCHANGED <<planets, routes, graph, routerVars, driverVars, calls, pc>>

\* update() is called on the ship.
ShipUpdate ==
    /\ pc = "ship"
    /\ calls[1] < MaxTicks
    /\ LET r == update(ships[1])
       IN  /\ ships' = << r.ship >>
           /\ log' = log \o r.events
    /\ calls' = << calls[1] + 1 >>
    /\ UNCHANGED <<planets, routes, graph, routerVars, driverVars, rejects, pc>>

NoRouter ==
    /\ start = 1 /\ end = 1 /\ ship_speed = 1 /\ queue = <<>>
    /\ visited = EmptyMap /\ result = Running /\ pops = <<>>

ShipInit ==
    /\ planets = <<>> /\ routes = <<>> /\ graph = EmptyMap
    /\ NoRouter
    /\ NoDriver
    /\ \E c \in ShipCoords, v \in Speeds : ships = << Ship(1, c, v) >>
    /\ log = <<>>
    /\ calls = <<0>>
    /\ rejects = <<>>
    /\ pc = "ship"

ShipNext == ShipSetPath \/ ShipSetShortPath \/ ShipUpdate

SpecShip == ShipInit /\ [][ShipNext]_vars

-----------------------------------------------------------------------------
(* main *)

\* frames=1000 of FuncAnimation (line 222).
Frames == 1000

\* ani.save (line 223) draws the first frame once more before it saves the
\* frames: without an init_func, FuncAnimation's initial draw calls animate
\* with the first frame.
InitDraws == 1

\* The configurations main is run on: one of two coordinate maps, one of two
\* route lists (a chain 1-2-3 that leaves waypoint 4 alone; the same with
\* waypoint 4 tied to 2 and 3), and up to MaxShips ships.
DriverLayouts ==
    { <<  <<0, 0>>, <<10, 0>>, <<10, 10>>, <<10, 0>>  >>,
      <<  <<0, 0>>, <<6, 0>>,  <<6, 8>>,   <<3, 4>>   >> }

DriverRoutes ==
    { << <<1, 2>>, <<2, 3>> >>,
      << <<1, 2>>, <<2, 4>>, <<3, 4>> >> }

ShipChoices ==
    { [start |-> 1, end |-> 3, speed |-> 5],
      [start |-> 1, end |-> 4, speed |-> 2],
      [start |-> 4, end |-> 1, speed |-> 5],
      [start |-> 3, end |-> 3, speed |-> 2],
      [start |-> 4, end |-> 4, speed |-> 5] }

\* The ship lists: ship k is named k.
ShipLists ==
    UNION { { [k \in 1..n |-> [name |-> k, start |-> c[k].start,
                               end |-> c[k].end, speed |-> c[k].speed]] :
              c \in [1..n -> ShipChoices] } : n \in 0..MaxShips }

\* line 186: [planets[p] for p in path]
Coordinates(positions, path) == [i \in 1..Len(path) |-> positions[path[i]]]

\* The loop of lines 182-189 left at the first ship that has no path.
MainSetupAbort ==
    /\ pc = "setup"
    /\ next_ship <= Len(ships_data)
    /\ LET s == ships_data[next_ship]
           ship == Ship(s.name, planets[s.start], s.speed)
           path == fastest_path(graph, s.start, s.end, planets, ship.speed)
       IN  IF path.found /\ path.path # <<>>
           THEN LET r == set_path(ship, Coordinates(planets, path.path))
                IN  /\ ships' = Append(ships, r.ship)
                    /\ log' = log \o r.events
                    /\ calls' = Append(calls, 0)
                    /\ next_ship' = next_ship + 1
                    /\ UNCHANGED unroutable
           ELSE /\ unroutable' = Append(unroutable, s.name)
                /\ next_ship' = Len(ships_data) + 1
                /\ UNCHANGED <<ships, log, calls>>
    /\ UNCHANGED <<planets, routes, graph, routerVars, ships_data, rejects,
                   frame, stopped, pc>>

\* The loop of lines 182-189 taking a path of one waypoint for no path
\* (if path and len(path) > 1).
MainSetupSkipsShort ==
    /\ pc = "setup"
    /\ next_ship <= Len(ships_data)
    /\ LET s == ships_data[next_ship]
           ship == Ship(s.name, planets[s.start], s.speed)
           path == fastest_path(graph, s.start, s.end, planets, ship.speed)
       IN  IF path.found /\ Len(path.path) > 1
           THEN LET r == set_path(ship, Coordinates(planets, path.path))
                IN  /\ ships' = Append(ships, r.ship)
                    /\ log' = log \o r.events
                    /\ calls' = Append(calls, 0)
                    /\ UNCHANGED unroutable
           ELSE /\ unroutable' = Append(unroutable, s.name)
                /\ UNCHANGED <<ships, log, calls>>
    /\ next_ship' = next_ship + 1
    /\ UNCHANGED <<planets, routes, graph, routerVars, ships_data, rejects,
                   frame, stopped, pc>>

\* One iteration of the loop of lines 182-189, for ships_data[next_ship].
MainSetup ==
    /\ pc = "setup"
    /\ next_ship <= Len(ships_data)
    /\ LET s == ships_data[next_ship]
           ship == Ship(s.name, planets[s.start], s.speed)
           path == fastest_path(graph, s.start, s.end, planets, ship.speed)
       IN  IF path.found /\ path.path # <<>>
           THEN LET r == set_path(ship, Coordinates(planets, path.path))
                IN  /\ ships' = Append(ships, r.ship)
                    /\ log' = log \o r.events
                    /\ calls' = Append(calls, 0)
                    /\ UNCHANGED unroutable
           ELSE /\ unroutable' = Append(unroutable, s.name)
                /\ UNCHANGED <<ships, log, calls>>
    /\ next_ship' = next_ship + 1
    /\ UNCHANGED <<planets, routes, graph, routerVars, ships_data, rejects,
                   frame, stopped, pc>>

\* The loop is over: the figure is set up and the animation made (192-222).
MainAnimation ==
    /\ pc = "setup"
    /\ next_ship > Len(ships_data)
    /\ pc' = "animate"
    /\ UNCHANGED <<planets, routes, graph, routerVars, shipVars, driverVars>>

\* The loop of lines 213-217 with each ship's rows put in front of the rows
\* of the ships before it.
RECURSIVE UpdateAllNewestFirst(_, _, _)
UpdateAllNewestFirst(ss, k, acc) ==
    IF k > Len(ss) THEN acc
    ELSE LET r == update(ss[k])
         IN  UpdateAllNewestFirst(ss, k + 1,
                 [ships |-> Append(acc.ships, r.ship),
                  events |-> r.events \o acc.events])

\* lines 213-217: ship.update() for each ship of ships[k..], in order.
RECURSIVE UpdateAll(_, _, _)
UpdateAll(ss, k, acc) ==
    IF k > Len(ss) THEN acc
    ELSE LET r == update(ss[k])
         IN  UpdateAll(ss, k + 1,
                 [ships |-> Append(acc.ships, r.ship),
                  events |-> acc.events \o r.events])

\* lines 212-218: all_done, once every ship has been updated.
AllDone(ss) == \A k \in 1..Len(ss) : ss[k].target = NoTarget

\* One call of animate (lines 211-220) by ani.save (line 223), which draws
\* the frames of its frame sequence one after the other and does not read
\* the animation's event source: ani.event_source.stop() stops the timer of
\* the interactive animation, not the loop of save.
Animate ==
    /\ pc = "animate"
    /\ frame < Frames + InitDraws
    /\ LET r == UpdateAll(ships, 1, [ships |-> <<>>, events |-> <<>>])
       IN  /\ ships' = r.ships
           /\ log' = log \o r.events
           /\ stopped' = (stopped \/ AllDone(r.ships))
    /\ calls' = [k \in 1..Len(calls) |-> calls[k] + 1]
    /\ frame' = frame + 1
    /\ UNCHANGED <<planets, routes, graph, routerVars, ships_data, next_ship,
                   unroutable, rejects, pc>>

\* The frames are saved: cul_logger.close() (line 225).
MainClose ==
    /\ pc = "animate"
    /\ frame = Frames + InitDraws
    /\ pc' = "closed"
    /\ UNCHANGED <<planets, routes, graph, routerVars, shipVars, driverVars>>

Init ==
    /\ planets \in DriverLayouts
    /\ routes \in DriverRoutes
    /\ graph = BuildGraph(routes)
    /\ NoRouter
    /\ ships_data \in ShipLists
    /\ next_ship = 1
    /\ unroutable = <<>>
    /\ frame = 0
    /\ stopped = FALSE
    /\ NoShips
    /\ pc = "setup"

Next == MainSetup \/ MainAnimation \/ Animate \/ MainClose

\* The whole run of main.
Spec == Init /\ [][Next]_vars

-----------------------------------------------------------------------------
(* Properties of fastest_path *)

\* Two waypoints joined by a route, in either direction.
Joined(rs, a, b) ==
    \E i \in 1..Len(rs) : rs[i] = <<a, b>> \/ rs[i] = <<b, a>>

\* The waypoints some sequence of routes connects to a waypoint of S.
RECURSIVE Connected(_, _)
Connected(rs, S) ==
    LET T == S \cup { n \in Nodes : \E m \in S : Joined(rs, m, n) }
    IN  IF T = S THEN S ELSE Connected(rs, T)

\* The walks of k waypoints that start at a.
RECURSIVE WalksFrom(_, _, _)
WalksFrom(rs, a, k) ==
    IF k = 1 THEN { <<a>> }
    ELSE { Append(x[1], x[2]) :
             x \in { y \in WalksFrom(rs, a, k - 1) \X Nodes :
                        Joined(rs, y[1][Len(y[1])], y[2]) } }

\* The walks from a to b along routes, of up to Cardinality(Nodes) + 1
\* waypoints (every simple path, and walks that repeat a waypoint).
Walks(rs, a, b) ==
    { w \in UNION { WalksFrom(rs, a, k) : k \in 1..(Cardinality(Nodes) + 1) } :
        w[Len(w)] = b }

\* The total travel time of a walk: the sum of dist/speed over its legs.
RECURSIVE PathTime(_, _, _)
PathTime(positions, w, speed) ==
    IF Len(w) < 2 THEN 0
    ELSE TravelTime(Dist(positions, w[1], w[2]), speed)
         + PathTime(positions, Tail(w), speed)

\* C1: fastest_path returns a sequence from start to end, or None, and None
\* exactly when no sequence of routes connects start to end.
C1_EndpointsOrNone ==
    pc = "returned" =>
        IF end \in Connected(routes, {start})
        THEN /\ result.found
             /\ result.path # <<>>
             /\ result.path[1] = start
             /\ result.path[Len(result.path)] = end
        ELSE result = NonePath

\* A query has returned a path of three or more waypoints.
C1_Witness ==
    pc = "returned" /\ result.found /\ Len(result.path) >= 3

\* C2: the travel time of the returned path is at most that of every walk
\* from start to end.
C2_Fastest ==
    (pc = "returned" /\ result.found) =>
        \A w \in Walks(routes, start, end) :
            PathTime(planets, result.path, ship_speed) <= PathTime(planets, w, ship_speed)

\* A query has returned a path of two or more legs where a walk of no more
\* legs is slower.
C2_Witness ==
    /\ pc = "returned" /\ result.found /\ Len(result.path) >= 3
    /\ \E w \in Walks(routes, start, end) :
          /\ Len(w) <= Len(result.path)
          /\ PathTime(planets, result.path, ship_speed) < PathTime(planets, w, ship_speed)

\* C8: whichever least entry the heap hands out at each pop, the query
\* returns the one value its arguments determine.
C8_Deterministic ==
    pc = "returned" => result = fastest_path(graph, start, end, planets, ship_speed)

\* A query has returned a path while another entry for the goal, with the
\* same time and another path, was in the queue.
C8_Witness ==
    /\ pc = "returned" /\ result.found
    /\ \E k \in 1..Len(queue) :
          /\ queue[k].node = end
          /\ queue[k].time = pops[Len(pops)].time
          /\ queue[k].path # result.path

\* The entry a step has popped (the step has added it to pops).
Popped == pops'[Len(pops')]

\* The entry of least time that was inserted first (queue is in insertion
\* order).
EarliestOfLeastTime(q) ==
    q[CHOOSE i \in 1..Len(q) :
          /\ \A j \in 1..Len(q) : q[j].time >= q[i].time
          /\ \A j \in 1..(i - 1) : q[j].time > q[i].time]

\* C12 as stated: of the entries that share the least accumulated time, the
\* one inserted first is the one popped.
C12_TieByInsertionOrder ==
    [][ pops' # pops => Popped = EarliestOfLeastTime(queue) ]_vars

\* Entry e comes before entry f, or is the same tuple: by time, then by
\* waypoint name, then by path as a list.
Before(e, f) ==
    \/ e.time < f.time
    \/ e.time = f.time /\ e.node < f.node
    \/ e.time = f.time /\ e.node = f.node /\ (e.path = f.path \/ ListLess(e.path, f.path))

\* C12 amended: the entry popped has the least accumulated time; of the
\* entries that share it, the one with the least waypoint name is popped;
\* of those for the same waypoint, the one with the least path.  The order
\* of insertion plays no part.
C12_TieByNameThenPath ==
    [][ pops' # pops => \A k \in 1..Len(queue) : Before(Popped, queue[k]) ]_vars

\* The path of the entry whose expansion pushed an entry of path p.
Front(p) == SubSeq(p, 1, Len(p) - 1)

\* Entry f was pushed before entry e: the entry that pushed f was popped
\* before every pop of an entry with the path of the one that pushed e.
PushedBefore(f, e) ==
    /\ Len(f.path) >= 2 /\ Len(e.path) >= 2
    /\ \E a \in 1..Len(pops) :
          /\ pops[a].path = Front(f.path)
          /\ \A b \in 1..Len(pops) : pops[b].path = Front(e.path) => a < b

\* An entry has been popped while an entry of the same time, pushed before
\* it, for a waypoint of greater name, stayed in the queue.
C12_Witness ==
    /\ pops # <<>>
    /\ \E k \in 1..Len(queue) :
          /\ queue[k].time = pops[Len(pops)].time
          /\ queue[k].node > pops[Len(pops)].node
          /\ PushedBefore(queue[k], pops[Len(pops)])

\* C16: a waypoint recorded in visited keeps its recorded time for the rest
\* of the query; a pop of a recorded waypoint has a time not smaller than
\* the recorded one and only takes the entry out of the queue (nothing is
\* pushed, visited is unchanged); and the time of each pop is not smaller
\* than the time of the pop before it.
C16_FinalizedOnce ==
    [][ pops' # pops =>
            /\ pops # <<>> => pops[Len(pops)].time <= Popped.time
            /\ \A n \in DOMAIN visited :
                  n \in DOMAIN visited' /\ visited'[n] = visited[n]
            /\ Popped.node \in DOMAIN visited =>
                  /\ Popped.time >= visited[Popped.node]
                  /\ visited' = visited
                  /\ queue' = Remove(queue, PopIndex(queue)) ]_vars

\* The last pop was of a waypoint recorded with a smaller time (the entry
\* was discarded), and an earlier pop was of the same waypoint with a time
\* equal to the recorded one.
C16_Witness ==
    /\ pc = "search" /\ pops # <<>>
    /\ pops[Len(pops)].node \in DOMAIN visited
    /\ visited[pops[Len(pops)].node] < pops[Len(pops)].time
    /\ \E a \in 1..(Len(pops) - 1) :
          /\ pops[a].node = pops[Len(pops)].node
          /\ pops[a].time = visited[pops[a].node]

\* No waypoint occurs twice in p.
Simple(p) == \A i \in 1..Len(p) : \A j \in 1..Len(p) : p[i] = p[j] => i = j

\* C18: a returned path is a walk along routes (each two consecutive
\* waypoints are joined by a route of the route list) in which no waypoint
\* occurs twice.
C18_SimpleWalk ==
    (pc = "returned" /\ result.found) =>
        /\ \A i \in 1..(Len(result.path) - 1) :
              Joined(routes, result.path[i], result.path[i + 1])
        /\ Simple(result.path)

\* A query has returned a path of three or more waypoints that runs over a
\* zero-length edge, while the queue held an entry whose path visits a
\* waypoint twice.
C18_Witness ==
    /\ pc = "returned" /\ result.found /\ Len(result.path) >= 3
    /\ \E i \in 1..(Len(result.path) - 1) :
          Dist(planets, result.path[i], result.path[i + 1]) = 0
    /\ \E k \in 1..Len(queue) : ~Simple(queue[k].path)

\* C20: the path a query returns (or None) is what the same query returns
\* at every other speed.
C20_SpeedIndependent ==
    pc = "returned" =>
        \A v \in Speeds : fastest_path(graph, start, end, planets, v) = result

\* A query has returned a path of three or more waypoints where another
\* walk from start to end takes the same time and a third one takes longer.
C20_Witness ==
    /\ pc = "returned" /\ result.found /\ Len(result.path) >= 3
    /\ \E w \in Walks(routes, start, end) :
          /\ w # result.path
          /\ PathTime(planets, w, ship_speed) = PathTime(planets, result.path, ship_speed)
    /\ \E w \in Walks(routes, start, end) :
          /\ Simple(w)
          /\ PathTime(planets, w, ship_speed) > PathTime(planets, result.path, ship_speed)

-----------------------------------------------------------------------------
(* Properties of one ship *)

\* The metric kinds of the rows ship name has logged, in order.
RECURSIVE KindsOf(_, _)
KindsOf(rows, name) ==
    IF rows = <<>> THEN <<>>
    ELSE IF Head(rows).ship = name
         THEN << Head(rows).metric >> \o KindsOf(Tail(rows), name)
         ELSE KindsOf(Tail(rows), name)

\* How far a sequence of kinds is in the pattern
\*     (route_enter distance_traveled+ route_exit)*
\* st is "out" between two repetitions, "entered" after route_enter, "moving"
\* after a distance_traveled, "bad" once the pattern is broken; exits counts
\* the repetitions completed.
RECURSIVE Scan(_, _, _)
Scan(kinds, st, exits) ==
    IF kinds = <<>> THEN [st |-> st, exits |-> exits]
    ELSE LET k == Head(kinds)
             nxt == IF st = "out" /\ k = "route_enter" THEN "entered"
                    ELSE IF st \in {"entered", "moving"} /\ k = "distance_traveled"
                         THEN "moving"
                    ELSE IF st = "moving" /\ k = "route_exit" THEN "out"
                    ELSE "bad"
         IN  Scan(Tail(kinds), nxt, IF k = "route_exit" THEN exits + 1 ELSE exits)

Count(kinds, k) == Cardinality({ i \in 1..Len(kinds) : kinds[i] = k })

\* C3: the kinds a ship with an accepted path emits follow the pattern
\* route_enter, distance_traveled (one or more), route_exit, once per leg
\* begun; an idle ship has emitted exactly one repetition per leg of its
\* path, the last event being the last route_exit, whatever the number of
\* calls of update since.
C3_EventOrder ==
    \A k \in 1..Len(ships) :
        LET s == ships[k]
            sc == Scan(KindsOf(log, s.name), "out", 0)
        IN  s.path # <<>> =>
                /\ sc.st # "bad"
                /\ sc.exits = s.target_index - 1
                /\ s.target # NoTarget => sc.st \in {"entered", "moving"}
                /\ s.target = NoTarget =>
                       sc.st = "out" /\ sc.exits = Len(s.path) - 1

\* A ship with a path of two legs is idle and update has been called on it
\* more often than it has moved.
C3_Witness ==
    /\ pc = "ship"
    /\ ships[1].target = NoTarget /\ Len(ships[1].path) = 3
    /\ Count(KindsOf(log, 1), "distance_traveled") < calls[1]

\* The length of the leg from a to b, and of a path.
LegLen(a, b) == Norm(b[1] - a[1], b[2] - a[2])

RECURSIVE TotalLen(_)
TotalLen(path) ==
    IF Len(path) < 2 THEN 0 ELSE LegLen(path[1], path[2]) + TotalLen(Tail(path))

CeilDiv(a, b) == (a + b - 1) \div b

\* The calls of update a path takes when each leg is flown on its own:
\* ceil(length/speed) for a leg, and one call for a leg of length 0.
RECURSIVE LegTicks(_, _)
LegTicks(path, speed) ==
    IF Len(path) < 2 THEN 0
    ELSE Max(1, CeilDiv(LegLen(path[1], path[2]), speed))
         + LegTicks(Tail(path), speed)

\* No leg of the path has length 0.
NoZeroLeg(path) ==
    \A i \in 1..(Len(path) - 1) : LegLen(path[i], path[i + 1]) > 0

\* No leg but the last has length 0.
NoZeroLegBeforeLast(path) ==
    \A i \in 1..(Len(path) - 2) : LegLen(path[i], path[i + 1]) > 0

C5_ZeroLegTick ==
    [][ (/\ pc = "ship"
         /\ ships[1].target # NoTarget
         /\ ~ships[1].pos.nan
         /\ ships[1].target = <<ships[1].pos.x, ships[1].pos.y>>
         /\ ships[1].target_index + 1 < Len(ships[1].path)
         /\ calls' # calls)
        => /\ ships'[1].pos = ships[1].pos
           /\ ships'[1].target_index = ships[1].target_index + 1 ]_vars

\* C9: a call of set_path with fewer than 2 points changes neither the ship
\* (path, target_index, target, pos) nor the log.
C9_ShortPathNoOp ==
    [][ rejects' # rejects => ships' = ships /\ log' = log ]_vars

\* set_path has been called with fewer than 2 points on a ship under way on
\* its second leg.
C9_Witness ==
    /\ pc = "ship"
    /\ \E i \in 1..Len(rejects) : rejects[i] = 2
    /\ ships[1].target_index = 2 /\ ships[1].target # NoTarget

\* The distance from a ship's position to its target (positions that are
\* numbers).
DistToTarget(s) == Norm(s.target[1] - s.pos.x, s.target[2] - s.pos.y)

\* after <= before on floats: False when either distance is NaN.
DistLeq(after, before) ==
    /\ ~after.pos.nan /\ ~before.pos.nan
    /\ DistToTarget(after) <= DistToTarget(before)

\* A call of update that leaves the ship aiming at the target it aimed at.
SameTargetTick ==
    /\ pc = "ship" /\ calls' # calls
    /\ ships[1].target # NoTarget /\ ships'[1].target # NoTarget
    /\ ships'[1].target_index = ships[1].target_index

\* C11: a call of update that leaves the ship aiming at the same target does
\* not increase the distance to it: the distance after the call is less than
\* or equal to the distance before it.
C11_DistanceNonIncreasing ==
    [][ SameTargetTick => DistLeq(ships'[1], ships[1]) ]_vars

\* The same for the ships whose position is a number before the call.
DistanceNonIncreasingOnNumbers ==
    [][ (SameTargetTick /\ ~ships[1].pos.nan) => DistLeq(ships'[1], ships[1]) ]_vars

\* C13: a ship whose set_path was accepted has emitted one route_enter more
\* than route_exit while it has a target, and as many once it is idle, when
\* both counts are len(path) - 1.
C13_EnterExitCounts ==
    \A k \in 1..Len(ships) :
        LET s == ships[k]
            enters == Count(KindsOf(log, s.name), "route_enter")
            exits == Count(KindsOf(log, s.name), "route_exit")
        IN  s.path # <<>> =>
                /\ s.target # NoTarget => enters = exits + 1
                /\ s.target = NoTarget =>
                       enters = exits /\ exits = Len(s.path) - 1

\* A ship with a path of three points is idle, with two route_enter and two
\* route_exit in the log.
C13_Witness ==
    /\ pc = "ship"
    /\ ships[1].target = NoTarget /\ Len(ships[1].path) = 3
    /\ Count(KindsOf(log, 1), "route_enter") = 2
    /\ Count(KindsOf(log, 1), "route_exit") = 2

-----------------------------------------------------------------------------
(* Properties of the run of main *)

\* Active ship k has been given a path of two or more points.
Routed(k) == ships[k].path # <<>>

\* C6: once a frame has left every active ship idle the driver has stopped:
\* animate is not called again (no ship is ticked after that frame).  Stated
\* for the runs in which some ship was given a path.
C6_StopsWhenAllIdle ==
    [][ (/\ pc = "animate"
         /\ frame >= 1
         /\ \E k \in 1..Len(ships) : Routed(k)
         /\ AllDone(ships))
        => frame' = frame /\ calls' = calls ]_vars

\* The names of the active ships, in order.
ActiveNames == [k \in 1..Len(ships) |-> ships[k].name]

InSeq(x, sq) == \E i \in 1..Len(sq) : sq[i] = x

\* C7: of the configured ships handled so far, one whose end no sequence of
\* routes connects to its start is reported, is not an active ship and has
\* no row in the log; every other one is an active ship, exactly once, with
\* its path set when it has a leg to fly, and is ticked in every frame.  The
\* frames start only when every configured ship has been handled.
C7_UnroutableSkipped ==
    /\ pc # "setup" => next_ship = Len(ships_data) + 1
    /\ \A n \in 1..(next_ship - 1) :
          LET d == ships_data[n]
          IN  IF d.end \in Connected(routes, {d.start})
              THEN /\ ~InSeq(n, unroutable)
                   /\ Cardinality({ k \in 1..Len(ships) : ships[k].name = n }) = 1
                   /\ \A k \in 1..Len(ships) :
                         ships[k].name = n =>
                             /\ calls[k] = frame
                             /\ d.start # d.end =>
                                    /\ Len(ships[k].path) >= 2
                                    /\ ships[k].path[1] = planets[d.start]
                                    /\ ships[k].path[Len(ships[k].path)] = planets[d.end]
              ELSE /\ InSeq(n, unroutable)
                   /\ ~InSeq(n, ActiveNames)
                   /\ KindsOf(log, n) = <<>>

\* A ship without a path was reported, and a ship configured after it has
\* been given its path and has moved.
C7_Witness ==
    /\ pc = "animate"
    /\ \E n \in 1..Len(ships_data) : \E k \in 1..Len(ships) :
          /\ InSeq(n, unroutable)
          /\ ships[k].name > n
          /\ Routed(k)
          /\ Count(KindsOf(log, ships[k].name), "distance_traveled") >= 1

\* The scenario: A = (0,0), B = (10,0), C = (10,10), routes A-B and B-C, and
\* active ship k going from A to C at speed 5.
Scenario(k) ==
    /\ planets[1] = <<0, 0>> /\ planets[2] = <<10, 0>> /\ planets[3] = <<10, 10>>
    /\ routes = << <<1, 2>>, <<2, 3>> >>
    /\ ships_data[ships[k].name].start = 1
    /\ ships_data[ships[k].name].end = 3
    /\ ships_data[ships[k].name].speed = 5

Leg == << "distance_traveled", "distance_traveled", "route_exit" >>

\* C10: in the scenario fastest_path(A, C) is [A, B, C] with total time 4;
\* the ship is at (5,0) after one call of update, at (10,0) after two (that
\* call emits route_exit, then route_enter), at (10,5) after three, and at
\* (10,10) after four, when it has emitted route_exit and is idle.
C10_Scenario ==
    \A k \in 1..Len(ships) :
        Scenario(k) =>
            LET s == ships[k]
                kinds == KindsOf(log, s.name)
            IN  /\ fastest_path(graph, 1, 3, planets, 5) = SomePath(<<1, 2, 3>>)
                /\ PathTime(planets, <<1, 2, 3>>, 5) = 4 * TimeScale
                /\ s.path = << <<0, 0>>, <<10, 0>>, <<10, 10>> >>
                /\ calls[k] = 0 => s.pos = ToPos(<<0, 0>>) /\ kinds = << "route_enter" >>
                /\ calls[k] = 1 =>
                       /\ s.pos = ToPos(<<5, 0>>)
                       /\ kinds = << "route_enter", "distance_traveled" >>
                /\ calls[k] = 2 =>
                       /\ s.pos = ToPos(<<10, 0>>)
                       /\ kinds = << "route_enter" >> \o Leg \o << "route_enter" >>
                       /\ s.target = ToTarget(<<10, 10>>)
                /\ calls[k] = 3 =>
                       /\ s.pos = ToPos(<<10, 5>>)
                       /\ kinds = << "route_enter" >> \o Leg
                                  \o << "route_enter", "distance_traveled" >>
                /\ calls[k] >= 4 =>
                       /\ s.pos = ToPos(<<10, 10>>)
                       /\ kinds = << "route_enter" >> \o Leg \o << "route_enter" >> \o Leg
                       /\ s.target = NoTarget

\* The ship of the scenario has been ticked four times.
C10_Witness ==
    \E k \in 1..Len(ships) : Scenario(k) /\ calls[k] = 4 /\ ships[k].target = NoTarget

\* The rows a step has added to the log are none of ship name's.
NoNewRowOf(name) ==
    \A i \in (Len(log) + 1)..Len(log') : log'[i].ship # name

\* C14: a frame leaves every idle ship as it was (position, path,
\* target_index, target) and adds no row of it to the log; it takes every
\* ship to the state its own update gives from its own state, whatever the
\* other ships are; and it leaves planets, routes and graph as they were.
C14_IdleAbsorbing ==
    [][ frame' # frame =>
            /\ planets' = planets /\ routes' = routes /\ graph' = graph
            /\ Len(ships') = Len(ships)
            /\ \A k \in 1..Len(ships) :
                  /\ ships'[k] = update(ships[k]).ship
                  /\ ships[k].target = NoTarget =>
                         ships'[k] = ships[k] /\ NoNewRowOf(ships[k].name) ]_vars

\* A ship that flew its path is idle and has been ticked since, while
\* another ship is still under way.
C14_Witness ==
    /\ pc = "animate" /\ frame <= 8
    /\ \E j \in 1..Len(ships) : \E k \in 1..Len(ships) :
          /\ Routed(j) /\ ships[j].target = NoTarget
          /\ ships[k].target # NoTarget /\ ~ships[k].pos.nan
          /\ Count(KindsOf(log, ships[j].name), "distance_traveled") < calls[j]

\* The rows a step has added to the log, in order.
NewRows == SubSeq(log', Len(log) + 1, Len(log'))

\* The place of the ship named name in ships.
PlaceOf(name) == CHOOSE k \in 1..Len(ships) : ships[k].name = name

\* C15: the log only grows at its end; the active ships and their order are
\* the same in every frame; a frame adds, for each ship that has a target,
\* exactly one distance_traveled row, and for an idle ship none; and the
\* rows of a frame are in the order of the ships: all rows of a ship come
\* after the rows of the ships before it (and, the log growing at its end,
\* before every row of the next frame).
C15_FrameOrder ==
    [][ /\ Len(log') >= Len(log)
        /\ SubSeq(log', 1, Len(log)) = log
        /\ frame' # frame =>
              /\ ActiveNames' = ActiveNames
              /\ \A k \in 1..Len(ships) :
                    Cardinality({ i \in 1..Len(NewRows) :
                                    /\ NewRows[i].ship = ships[k].name
                                    /\ NewRows[i].metric = "distance_traveled" })
                        = IF ships[k].target = NoTarget THEN 0 ELSE 1
              /\ \A i \in 1..Len(NewRows) : \A j \in 1..Len(NewRows) :
                    i < j => PlaceOf(NewRows[i].ship) <= PlaceOf(NewRows[j].ship) ]_vars

\* Two ships have been ticked in two frames or more, and the last frame has
\* added rows of both: the last row of the log is the second ship's and the
\* row before it the first ship's.
C15_Witness ==
    /\ pc = "animate" /\ frame >= 2 /\ frame <= 8
    /\ Len(ships) = 2
    /\ ships[1].target # NoTarget /\ ships[2].target # NoTarget
    /\ log[Len(log)].ship = ships[2].name
    /\ log[Len(log) - 1].ship = ships[1].name

\* C19: for a configured ship whose start is its end, fastest_path returns
\* the one-waypoint path [start]; the ship is not reported; it is an active
\* ship as Ship.__init__ made it (no path, target_index 0, no target, at its
\* start), in every frame; and it has no row in the log.
C19_StartIsEnd ==
    \A n \in 1..(next_ship - 1) :
        LET d == ships_data[n]
        IN  d.start = d.end =>
                /\ fastest_path(graph, d.start, d.end, planets, d.speed)
                       = SomePath(<< d.start >>)
                /\ ~InSeq(n, unroutable)
                /\ \E k \in 1..Len(ships) :
                      ships[k] = Ship(n, planets[d.start], d.speed)
                /\ \A i \in 1..Len(log) : log[i].ship # n

\* A ship whose start and end are a waypoint that no route touches is an
\* active ship and has been ticked three times.
C19_Witness ==
    /\ pc = "animate"
    /\ \E k \in 1..Len(ships) :
          /\ ships_data[ships[k].name].start = ships_data[ships[k].name].end
          /\ GraphGet(graph, ships_data[ships[k].name].start) = <<>>
          /\ calls[k] = 3
          /\ ships[k].target = NoTarget

-----------------------------------------------------------------------------
(* Properties of one call of update *)

\* The distance between two positions that are numbers.
Apart(p, q) == Norm(q.x - p.x, q.y - p.y)

\* A target as a position.
TargetPos(t) == [x |-> t[1], y |-> t[2], nan |-> FALSE]

\* C17: a call of update on a ship at distance dist > 0 from its target
\* moves it by exactly min(speed, dist), onto the segment from its position
\* to the target (the distance to the target drops by the step, so the
\* ship is never past it), and logs that step as distance_traveled; when
\* dist <= speed the new position is the target and the rows of the call are
\* distance_traveled and route_exit, both with value dist.
C17_StepTowardTarget ==
    [][ (/\ pc = "ship" /\ calls' # calls
         /\ ships[1].target # NoTarget /\ ~ships[1].pos.nan
         /\ DistToTarget(ships[1]) > 0)
        => LET s == ships[1]
               goal == TargetPos(s.target)
               dist == DistToTarget(s)
               budget == s.speed * PosScale
               step == IF budget < dist THEN budget ELSE dist
               after == ships'[1].pos
           IN  /\ ~after.nan
               /\ Apart(s.pos, after) = step
               /\ IsSquare(after.x - s.pos.x, after.y - s.pos.y)
               /\ Apart(after, goal) = dist - step
               /\ IsSquare(goal.x - after.x, goal.y - after.y)
               /\ NewRows[1].metric = "distance_traveled"
               /\ NewRows[1].value = step
               /\ NewRows[1].pos = after
               /\ dist <= budget =>
                     /\ after = goal
                     /\ NewRows[2].metric = "route_exit"
                     /\ NewRows[2].value = dist
                     /\ NewRows[1].value = dist
               /\ dist > budget => Len(NewRows) = 1 ]_vars

\* A ship has reached a waypoint on a call of update that found it nearer
\* than its speed: the call logged route_exit with a value above 0 and below
\* the speed, and the ship had made a full step on that leg before.
C17_Witness ==
    /\ pc = "ship" /\ Len(log) >= 3
    /\ log[Len(log)].metric = "route_exit"
    /\ log[Len(log)].value > 0
    /\ log[Len(log)].value < ships[1].speed * PosScale
    /\ log[Len(log) - 1].value = log[Len(log)].value
    /\ log[Len(log) - 2].metric = "distance_traveled"
    /\ log[Len(log) - 2].value = ships[1].speed * PosScale
    /\ ships[1].pos = ToPos(ships[1].path[Len(ships[1].path)])

=============================================================================
